---- MODULE Spec2Model ----
(***************************************************************************)
(* A model of the tensor utilities and model classes of                    *)
(*   src/natural_language_inference/ESIM/model.py                          *)
(*   src/sentiment_classification/CNN/model.py                             *)
(*                                                                         *)
(* Tensors are records [shape, data] with the data in row-major            *)
(* (contiguous) order.  Float tensors hold exact rationals over            *)
(* arbitrary-precision naturals (rounding is not modelled); the float      *)
(* specials nan and inf are kept.  A tensor entry that reaches exp() is    *)
(* stored in units of ln 2, so that exp() of it is an exact power of two.  *)
(* A raised Python exception is the record [error |-> <exception name>].   *)
(***************************************************************************)
EXTENDS Integers, Sequences, FiniteSets, TLC

VARIABLES call, ret, cnn

vars == <<call, ret, cnn>>

(***************************************************************************)
(* Arbitrary-precision naturals: little-endian sequences of limbs, no      *)
(* leading zero limb, zero is << >>.                                       *)
(***************************************************************************)
Base == 10^4

RECURSIVE BFromInt(_)
BFromInt(n) == IF n = 0 THEN << >> ELSE <<n % Base>> \o BFromInt(n \div Base)

RECURSIVE BToInt(_)
BToInt(a) == IF a = << >> THEN 0 ELSE Head(a) + Base * BToInt(Tail(a))

RECURSIVE BAddC(_, _, _)
BAddC(a, b, c) ==
    IF a = << >> /\ b = << >>
    THEN BFromInt(c)
    ELSE LET x == (IF a = << >> THEN 0 ELSE Head(a))
                  + (IF b = << >> THEN 0 ELSE Head(b)) + c
         IN  <<x % Base>> \o BAddC(IF a = << >> THEN << >> ELSE Tail(a),
                                   IF b = << >> THEN << >> ELSE Tail(b),
                                   x \div Base)

BAdd(a, b) == BAddC(a, b, 0)

RECURSIVE BMulSmallC(_, _, _)
BMulSmallC(a, k, c) ==
    IF a = << >>
    THEN BFromInt(c)
    ELSE LET x == Head(a) * k + c
         IN  <<x % Base>> \o BMulSmallC(Tail(a), k, x \div Base)

BMulSmall(a, k) == IF k = 0 THEN << >> ELSE BMulSmallC(a, k, 0)

RECURSIVE BMul(_, _)
BMul(a, b) ==
    IF a = << >> \/ b = << >>
    THEN << >>
    ELSE LET rest == BMul(Tail(a), b)
         IN  BAdd(BMulSmall(b, Head(a)),
                  IF rest = << >> THEN << >> ELSE <<0>> \o rest)

RECURSIVE BLessFrom(_, _, _)
BLessFrom(a, b, i) ==
    IF i = 0 THEN FALSE
    ELSE IF a[i] # b[i] THEN a[i] < b[i]
    ELSE BLessFrom(a, b, i - 1)

BLess(a, b) ==
    IF Len(a) # Len(b) THEN Len(a) < Len(b) ELSE BLessFrom(a, b, Len(a))

RECURSIVE BStrip(_)
BStrip(a) ==
    IF a = << >> THEN << >>
    ELSE IF a[Len(a)] = 0 THEN BStrip(SubSeq(a, 1, Len(a) - 1))
    ELSE a

RECURSIVE BSubC(_, _, _)
\* a - b - c for a >= b + c
BSubC(a, b, c) ==
    IF a = << >>
    THEN << >>
    ELSE LET x == Head(a) - (IF b = << >> THEN 0 ELSE Head(b)) - c
         IN  <<(x + Base) % Base>>
             \o BSubC(Tail(a), IF b = << >> THEN << >> ELSE Tail(b),
                      IF x < 0 THEN 1 ELSE 0)

BSub(a, b) == BStrip(BSubC(a, b, 0))

RECURSIVE BPow(_, _)
BPow(b, n) ==
    IF n = 0 THEN <<1>>
    ELSE IF n % 2 = 1 THEN BMulSmall(BPow(b, n - 1), b)
    ELSE LET h == BPow(b, n \div 2) IN BMul(h, h)

(***************************************************************************)
(* Floats: [k, neg, num, den], k in {"fin", "inf", "nan"}; a finite value  *)
(* is (-1)^neg * num / den with den > 0 (not reduced: compare with REq).   *)
(***************************************************************************)
Fin(neg, num, den) ==
    [k |-> "fin", neg |-> (neg /\ num # << >>), num |-> num, den |-> den]

NaN == [k |-> "nan", neg |-> FALSE, num |-> << >>, den |-> <<1>>]

Inf(neg) == [k |-> "inf", neg |-> neg, num |-> <<1>>, den |-> <<1>>]

Float(n) == Fin(n < 0, BFromInt(IF n < 0 THEN -n ELSE n), <<1>>)

IsZero(x) == x.k = "fin" /\ x.num = << >>

REq(x, y) ==
    /\ x.k = "fin"
    /\ y.k = "fin"
    /\ x.neg = y.neg
    /\ BMul(x.num, y.den) = BMul(y.num, x.den)

\* x < y on finite values
RLess(x, y) ==
    IF x.neg /\ ~y.neg THEN TRUE
    ELSE IF ~x.neg /\ y.neg THEN FALSE
    ELSE IF x.neg
         THEN BLess(BMul(y.num, x.den), BMul(x.num, y.den))
         ELSE BLess(BMul(x.num, y.den), BMul(y.num, x.den))

RNeg(x) == IF x.k = "nan" THEN NaN
           ELSE IF x.k = "inf" THEN Inf(~x.neg)
           ELSE Fin(~x.neg, x.num, x.den)

RMul(x, y) ==
    IF x.k = "nan" \/ y.k = "nan" THEN NaN
    ELSE IF x.k = "inf" \/ y.k = "inf"
         THEN IF IsZero(x) \/ IsZero(y) THEN NaN ELSE Inf(x.neg # y.neg)
    ELSE Fin(x.neg # y.neg, BMul(x.num, y.num), BMul(x.den, y.den))

RAdd(x, y) ==
    IF x.k = "nan" \/ y.k = "nan" THEN NaN
    ELSE IF x.k = "inf" /\ y.k = "inf"
         THEN IF x.neg = y.neg THEN x ELSE NaN
    ELSE IF x.k = "inf" THEN x
    ELSE IF y.k = "inf" THEN y
    ELSE LET den == IF x.den = y.den THEN x.den ELSE BMul(x.den, y.den)
             a   == IF x.den = y.den THEN x.num ELSE BMul(x.num, y.den)
             b   == IF x.den = y.den THEN y.num ELSE BMul(y.num, x.den)
         IN  IF x.neg = y.neg THEN Fin(x.neg, BAdd(a, b), den)
             ELSE IF BLess(a, b) THEN Fin(y.neg, BSub(b, a), den)
             ELSE Fin(x.neg, BSub(a, b), den)

RSub(x, y) == RAdd(x, RNeg(y))

RDiv(x, y) ==
    IF x.k = "nan" \/ y.k = "nan" THEN NaN
    ELSE IF x.k = "inf" THEN (IF y.k = "inf" THEN NaN ELSE Inf(x.neg # y.neg))
    ELSE IF y.k = "inf" THEN Float(0)
    ELSE IF IsZero(y) THEN (IF IsZero(x) THEN NaN ELSE Inf(x.neg # y.neg))
    ELSE IF x.den = y.den THEN Fin(x.neg # y.neg, x.num, y.num)
    ELSE Fin(x.neg # y.neg, BMul(x.num, y.den), BMul(x.den, y.num))

\* exp of a whole number x of ln 2 units: 2^x
Exp(x) ==
    IF x.k = "nan" THEN NaN
    ELSE IF x.k = "inf" THEN (IF x.neg THEN Float(0) ELSE Inf(FALSE))
    ELSE LET n == BToInt(x.num)
         IN  IF x.neg THEN Fin(FALSE, <<1>>, BPow(2, n))
             ELSE Fin(FALSE, BPow(2, n), <<1>>)

(***************************************************************************)
(* Tensors                                                                 *)
(***************************************************************************)
RECURSIVE Numel(_)
Numel(shape) == IF shape = << >> THEN 1 ELSE Head(shape) * Numel(Tail(shape))

\* the strides of a contiguous tensor of this shape
ContiguousStride(shape) ==
    [k \in 1..Len(shape) |-> Numel(SubSeq(shape, k + 1, Len(shape)))]

\* a contiguous tensor; data is always kept in the logical (row-major) order
\* of shape, and stride records the layout of the storage behind it (the
\* concatenation makes data an explicit sequence, evaluated once)
Tensor(shape, data) ==
    [shape |-> shape, stride |-> ContiguousStride(shape), data |-> data \o << >>]

Raise(name) == [error |-> name]

IsError(x) == "error" \in DOMAIN x

IsTensor(x) == "shape" \in DOMAIN x

Dim(t) == Len(t.shape)

RECURSIVE MaxOf(_)
MaxOf(s) ==
    IF Len(s) = 1 THEN s[1]
    ELSE LET m == MaxOf(Tail(s)) IN IF s[1] > m THEN s[1] ELSE m

Min(a, b) == IF a < b THEN a ELSE b

\* multi-index (0-based) of the flat 0-based offset i in a tensor of this shape
RECURSIVE Unravel(_, _)
Unravel(i, shape) ==
    IF shape = << >> THEN << >>
    ELSE LET inner == Numel(Tail(shape))
         IN  <<i \div inner>> \o Unravel(i % inner, Tail(shape))

RECURSIVE Ravel(_, _)
Ravel(idx, shape) ==
    IF shape = << >> THEN 0
    ELSE Head(idx) * Numel(Tail(shape)) + Ravel(Tail(idx), Tail(shape))

\* torch.ones(*shape, dtype=torch.float)
ones(shape) == Tensor(shape, [i \in 1..Numel(shape) |-> Float(1)])

\* t[:, :n] of a 2-dimensional tensor
SliceCols(t, n) ==
    LET w == Min(t.shape[2], n)
    IN  Tensor(<<t.shape[1], w>>,
               [i \in 1..(t.shape[1] * w) |->
                   t.data[((i - 1) \div w) * t.shape[2] + ((i - 1) % w) + 1]])

\* t == 0, elementwise
EqZero(t) == Tensor(t.shape, [i \in 1..Len(t.data) |-> t.data[i] = 0])

\* t[index] = value, index a boolean tensor
IndexPut(t, index, value) ==
    IF index.shape # t.shape
    THEN Raise("IndexError")
    ELSE Tensor(t.shape, [i \in 1..Len(t.data) |->
                             IF index.data[i] THEN value ELSE t.data[i]])

(***************************************************************************)
(* get_mask                                                                *)
(***************************************************************************)
\* variant: a cell is also cleared when it lies at or beyond its row's length
get_mask_by_length(sequences_batch, sequences_lengths) ==
    LET batch_size == sequences_batch.shape[1]
        max_length == MaxOf(sequences_lengths.data)
        mask       == ones(<<batch_size, max_length>>)
        zero       == EqZero(SliceCols(sequences_batch, max_length))
    IN  IF zero.shape # mask.shape
        THEN Raise("IndexError")
        ELSE IndexPut(mask,
                      Tensor(zero.shape,
                             [i \in 1..Len(zero.data) |->
                                 \/ zero.data[i]
                                 \/ (i - 1) % max_length
                                      >= sequences_lengths.data[((i - 1) \div max_length) + 1]]),
                      Float(0))

\* variant: the mask is as wide as the padded batch, not as the longest length
get_mask_padded_width(sequences_batch, sequences_lengths) ==
    LET batch_size == sequences_batch.shape[1]
        mask       == ones(<<batch_size, sequences_batch.shape[2]>>)
    IN  IndexPut(mask, EqZero(sequences_batch), Float(0))

get_mask(sequences_batch, sequences_lengths) ==
    LET batch_size == sequences_batch.shape[1]
        max_length == MaxOf(sequences_lengths.data)
        mask       == ones(<<batch_size, max_length>>)
    IN  IndexPut(mask, EqZero(SliceCols(sequences_batch, max_length)), Float(0))

(***************************************************************************)
(* Tensor operations used by masked_softmax and weighted_sum               *)
(***************************************************************************)
Last(s) == s[Len(s)]

\* whether t.view(-1, n), n the size of the last axis, is a view of t's storage:
\* the axes before the last (those of size 1 aside) must collapse into one
Viewable2(t) ==
    LET lead == {k \in 1..(Dim(t) - 1) : t.shape[k] # 1}
    IN  \A i \in lead, j \in lead :
            (i < j /\ \A k \in lead : ~(i < k /\ k < j))
                => t.stride[i] = t.shape[j] * t.stride[j]

\* t.view(-1, n), n the size of the last axis
View2(t, n) ==
    IF Viewable2(t)
    THEN [shape  |-> <<Len(t.data) \div n, n>>,
          stride |-> <<(IF Dim(t) >= 2 /\ \E k \in 1..(Dim(t) - 1) : t.shape[k] # 1
                        THEN t.stride[CHOOSE k \in 1..(Dim(t) - 1) :
                                         /\ t.shape[k] # 1
                                         /\ \A j \in (k + 1)..(Dim(t) - 1) : t.shape[j] = 1]
                        ELSE n * t.stride[Dim(t)]),
                       t.stride[Dim(t)]>>,
          data   |-> t.data]
    ELSE Raise("RuntimeError")

\* t.view(*shape)
View(t, shape) == Tensor(shape, t.data)

\* t.unsqueeze(1)
Unsqueeze1(t) == Tensor(<<t.shape[1], 1>> \o Tail(t.shape), t.data)

\* while t.dim() < n: t = t.unsqueeze(1)
RECURSIVE UnsqueezeTo(_, _)
UnsqueezeTo(t, n) == IF Dim(t) < n THEN UnsqueezeTo(Unsqueeze1(t), n) ELSE t

\* t.transpose(-1, -2)
TransposeLast(t) ==
    LET d  == Dim(t)
        sh == [k \in 1..d |-> IF k = d THEN t.shape[d - 1]
                              ELSE IF k = d - 1 THEN t.shape[d]
                              ELSE t.shape[k]]
    IN  [shape  |-> sh,
         stride |-> [k \in 1..d |-> IF k = d THEN t.stride[d - 1]
                                    ELSE IF k = d - 1 THEN t.stride[d]
                                    ELSE t.stride[k]],
         data   |-> [i \in 1..Len(t.data) |->
                        LET idx == Unravel(i - 1, sh)
                            src == [k \in 1..d |-> IF k = d THEN idx[d - 1]
                                                   ELSE IF k = d - 1 THEN idx[d]
                                                   ELSE idx[k]]
                        IN  t.data[Ravel(src, t.shape) + 1]] \o << >>]

\* t.expand(shape): a size-1 axis is repeated, any other size must agree
Expandable(from, to) ==
    /\ Len(from) <= Len(to)
    /\ \A k \in 1..Len(from) :
         LET j == k + Len(to) - Len(from)
         IN  from[k] = to[j] \/ from[k] = 1

Expand(t, shape) ==
    IF ~Expandable(t.shape, shape)
    THEN Raise("RuntimeError")
    ELSE LET off == Len(shape) - Dim(t)
         IN  Tensor(shape,
                    [i \in 1..Numel(shape) |->
                        LET idx == Unravel(i - 1, shape)
                            src == [k \in 1..Dim(t) |->
                                       IF t.shape[k] = 1 THEN 0 ELSE idx[k + off]]
                        IN  t.data[Ravel(src, t.shape) + 1]])

\* a * b, elementwise, same shape
Mul(a, b) == Tensor(a.shape, [i \in 1..Len(a.data) |-> RMul(a.data[i], b.data[i])])

RECURSIVE SumSeq(_)
SumSeq(s) == IF s = << >> THEN Float(0) ELSE RAdd(Head(s), SumSeq(Tail(s)))

\* row r (from 1) of a 2-dimensional tensor
Row(t, r) == SubSeq(t.data, (r - 1) * t.shape[2] + 1, r * t.shape[2])

\* t.sum(dim=-1, keepdim=True) of a 2-dimensional tensor
SumLast(t) == Tensor(<<t.shape[1], 1>>, [r \in 1..t.shape[1] |-> SumSeq(Row(t, r))])

\* t + c, c a scalar
AddScalar(t, c) == Tensor(t.shape, [i \in 1..Len(t.data) |-> RAdd(t.data[i], c)])

\* a / b for a of shape (rows, n) and b of shape (rows, 1)
DivRows(a, b) ==
    Tensor(a.shape,
           [i \in 1..Len(a.data) |->
               RDiv(a.data[i], b.data[((i - 1) \div a.shape[2]) + 1])])

\* nn.functional.softmax(t, dim=-1) of a 2-dimensional tensor
softmax(t) ==
    LET e == Tensor(t.shape, [i \in 1..Len(t.data) |-> Exp(t.data[i])])
    IN  DivRows(e, SumLast(e))

\* a.bmm(b)
bmm(a, b) ==
    IF Dim(a) # 3 \/ Dim(b) # 3 \/ a.shape[1] # b.shape[1] \/ a.shape[3] # b.shape[2]
    THEN Raise("RuntimeError")
    ELSE LET sh == <<a.shape[1], a.shape[2], b.shape[3]>>
         IN  Tensor(sh,
                    [i \in 1..Numel(sh) |->
                        LET idx == Unravel(i - 1, sh)
                        IN  SumSeq([k \in 1..a.shape[3] |->
                                RMul(a.data[Ravel(<<idx[1], idx[2], k - 1>>, a.shape) + 1],
                                     b.data[Ravel(<<idx[1], k - 1, idx[3]>>, b.shape) + 1])])])

(***************************************************************************)
(* masked_softmax                                                          *)
(***************************************************************************)
EpsExponent == 13

\* 1e-13
Eps == Fin(FALSE, <<1>>, BPow(10, EpsExponent))

\* variant: nothing is added to the denominator
masked_softmax_no_eps(tensor, mask) ==
    LET tensor_shape    == tensor.shape
        reshaped_tensor == View2(tensor, Last(tensor_shape))
        expanded        == Expand(UnsqueezeTo(mask, Dim(tensor)), tensor.shape)
    IN  IF IsError(reshaped_tensor) THEN reshaped_tensor
        ELSE IF IsError(expanded) THEN expanded
        ELSE LET reshaped_mask == View2(expanded, Last(expanded.shape))
                 result1 == softmax(Mul(reshaped_tensor, reshaped_mask))
                 result2 == Mul(result1, reshaped_mask)
                 result3 == DivRows(result2, SumLast(result2))
             IN  View(result3, tensor_shape)

\* variant: the logits are not multiplied by the mask before the softmax
masked_softmax_raw_logits(tensor, mask) ==
    LET tensor_shape    == tensor.shape
        reshaped_tensor == View2(tensor, Last(tensor_shape))
        expanded        == Expand(UnsqueezeTo(mask, Dim(tensor)), tensor.shape)
    IN  IF IsError(reshaped_tensor) THEN reshaped_tensor
        ELSE IF IsError(expanded) THEN expanded
        ELSE LET reshaped_mask == View2(expanded, Last(expanded.shape))
                 result1 == softmax(reshaped_tensor)
                 result2 == Mul(result1, reshaped_mask)
                 result3 == DivRows(result2, AddScalar(SumLast(result2), Eps))
             IN  View(result3, tensor_shape)

masked_softmax(tensor, mask) ==
    LET tensor_shape    == tensor.shape
        reshaped_tensor == View2(tensor, Last(tensor_shape))
        expanded        == Expand(UnsqueezeTo(mask, Dim(tensor)), tensor.shape)
    IN  IF IsError(reshaped_tensor) THEN reshaped_tensor
        ELSE IF IsError(expanded) THEN expanded
        ELSE LET reshaped_mask == View2(expanded, Last(expanded.shape))
                 result1 == softmax(Mul(reshaped_tensor, reshaped_mask))
                 result2 == Mul(result1, reshaped_mask)
                 result3 == DivRows(result2, AddScalar(SumLast(result2), Eps))
             IN  View(result3, tensor_shape)

(***************************************************************************)
(* weighted_sum                                                            *)
(***************************************************************************)
\* variant: the mask is not transposed before it is expanded
weighted_sum_no_transpose(tensor, weights, mask) ==
    LET ws == bmm(weights, tensor)
    IN  IF IsError(ws) THEN ws
        ELSE LET expanded == Expand(UnsqueezeTo(mask, Dim(ws)), ws.shape)
             IN  IF IsError(expanded) THEN expanded ELSE Mul(ws, expanded)

weighted_sum(tensor, weights, mask) ==
    LET ws == bmm(weights, tensor)
    IN  IF IsError(ws) THEN ws
        ELSE LET expanded == Expand(TransposeLast(UnsqueezeTo(mask, Dim(ws))), ws.shape)
             IN  IF IsError(expanded) THEN expanded ELSE Mul(ws, expanded)

(***************************************************************************)
(* SoftmaxAttention.forward                                                *)
(***************************************************************************)
SoftmaxAttention_forward(premise_batch, premise_mask, hypothesis_batch, hypothesis_mask) ==
    LET similarity_matrix == bmm(premise_batch, TransposeLast(hypothesis_batch))
    IN  IF IsError(similarity_matrix) THEN similarity_matrix
        ELSE LET prem_hyp_attn == masked_softmax(similarity_matrix, hypothesis_mask)
             IN  IF IsError(prem_hyp_attn) THEN prem_hyp_attn
                 ELSE LET hyp_prem_attn ==
                              masked_softmax(TransposeLast(similarity_matrix), premise_mask)
                      IN  IF IsError(hyp_prem_attn) THEN hyp_prem_attn
                          ELSE LET attended_premises ==
                                       weighted_sum(hypothesis_batch, prem_hyp_attn,
                                                    premise_mask)
                               IN  IF IsError(attended_premises) THEN attended_premises
                                   ELSE LET attended_hypotheses ==
                                                weighted_sum(premise_batch, hyp_prem_attn,
                                                             hypothesis_mask)
                                        IN  IF IsError(attended_hypotheses)
                                            THEN attended_hypotheses
                                            ELSE [attended_premises |-> attended_premises,
                                                  attended_hypotheses |-> attended_hypotheses]

(***************************************************************************)
(* nn.Embedding, as the two constructors use it                            *)
(***************************************************************************)
\* nn.Embedding(num_embeddings, embedding_dim, padding_idx=padding_idx): init
\* is the random initial weight, whose row padding_idx is then filled with 0
Embedding(num_embeddings, embedding_dim, padding_idx, init) ==
    [num_embeddings |-> num_embeddings,
     embedding_dim  |-> embedding_dim,
     padding_idx    |-> padding_idx,
     weight         |-> Tensor(<<num_embeddings, embedding_dim>>,
                               [i \in 1..(num_embeddings * embedding_dim) |->
                                   IF (i - 1) \div embedding_dim = padding_idx
                                   THEN Float(0) ELSE init.data[i]]),
     requires_grad  |-> TRUE]

\* module.requires_grad_(flag)
requires_grad_(module, flag) == [module EXCEPT !.requires_grad = flag]

\* nn.Parameter(data): requires_grad defaults to True
Parameter(data) == [data |-> data, requires_grad |-> TRUE]

\* module.weight = parameter
SetWeight(module, parameter) ==
    [module EXCEPT !.weight = parameter.data,
                   !.requires_grad = parameter.requires_grad]

\* nn.Embedding(rows, columns, padding_idx=0).requires_grad_(False), then
\* .weight = nn.Parameter(embeddings)
PretrainedEmbedding(embeddings, init) ==
    SetWeight(requires_grad_(Embedding(embeddings.shape[1], embeddings.shape[2], 0, init),
                             FALSE),
              Parameter(embeddings))

\* module(input): the rows of the weight at the indices of a 2-dimensional input
Embedding_forward(module, input) ==
    IF \E i \in 1..Len(input.data) :
           input.data[i] < 0 \/ input.data[i] >= module.weight.shape[1]
    THEN Raise("IndexError")
    ELSE LET dim == module.weight.shape[2]
         IN  Tensor(input.shape \o <<dim>>,
                    [i \in 1..(Len(input.data) * dim) |->
                        module.weight.data[input.data[((i - 1) \div dim) + 1] * dim
                                           + ((i - 1) % dim) + 1]])

(***************************************************************************)
(* CNN                                                                     *)
(***************************************************************************)
\* nn.Conv2d(in_channels, out_channels, kernel_size, stride, padding)
Conv2d(in_channels, out_channels, kernel_size, stride, padding) ==
    [in_channels |-> in_channels, out_channels |-> out_channels,
     kernel_size |-> kernel_size, stride |-> stride, padding |-> padding]

CNN_init(embeddings, input_dim, window_dim, filter_dim, output_dim, max_len, dropout, init) ==
    [max_len    |-> max_len,
     input_dim  |-> input_dim,
     window_dim |-> window_dim,
     filter_dim |-> filter_dim,
     emb        |-> PretrainedEmbedding(embeddings, init),
     cnn        |-> Conv2d(1, filter_dim, <<window_dim, embeddings.shape[2]>>, 1, 0)]

\* the locals when forward falls off its end, and the None it returns
CNN_forward(self, sen_batch, sen_lengths) ==
    LET embedded == Embedding_forward(self.emb, sen_batch)
    IN  IF IsError(embedded) THEN embedded
        ELSE [none   |-> TRUE,
              locals |-> [sen_batch  |-> Unsqueeze1(embedded),
                          batch_size |-> embedded.shape[1]]]

(***************************************************************************)
(* Seq2SeqEncoder and ESIM                                                 *)
(***************************************************************************)
\* Python values passed to Seq2SeqEncoder
PyInt(n) == [int |-> n]

PyClass(name) == [class |-> name]

\* the default of a parameter that is not passed
Default(args, k, default) == IF Len(args) >= k THEN args[k] ELSE default

\* Seq2SeqEncoder(*args, bidirectional=bidirectional): the attributes set
\* (lines 132-136) before self.input_dim, which was never set, is read
Seq2SeqEncoder_init(args, bidirectional) ==
    [error |-> "AttributeError",
     self  |-> [input_size    |-> args[1],
                hidden_size   |-> args[2],
                num_layers    |-> Default(args, 3, PyInt(1)),
                dropout       |-> Default(args, 5, PyInt(0)),
                bidirectional |-> bidirectional]]

\* the arguments of the three Seq2SeqEncoder(...) calls of ESIM.__init__
ESIM_encoding_args(embedding_dim, hidden_size) ==
    <<PyInt(embedding_dim), PyInt(hidden_size)>>

ESIM_composition_args_first(hidden_size) == <<PyInt(hidden_size), PyInt(hidden_size)>>

ESIM_composition_args(hidden_size) ==
    <<PyClass("nn.LSTM"), PyInt(hidden_size), PyInt(hidden_size)>>

\* nn.Linear(4*2*hidden_size, hidden_size) of the projection
ESIM_projection(hidden_size) ==
    [in_features |-> 4 * 2 * hidden_size, out_features |-> hidden_size]

\* ESIM(...): the attributes set (lines 216-220) before the name devie, which
\* is bound nowhere, is read
ESIM_init(vocab_size, embeddings_dim, hidden_size, embeddings, dropout, num_classes, device) ==
    [error |-> "NameError",
     self  |-> [vocab_size     |-> vocab_size,
                embeddings_dim |-> embeddings_dim,
                hidden_size    |-> hidden_size,
                dropout        |-> dropout,
                num_classes    |-> num_classes]]

\* tensor.to(device): the same values on another device
To(tensor, device) == tensor

\* module(*inputs) of a Seq2SeqEncoder: the class defines no forward
Seq2SeqEncoder_call(module, sequences_batch, sequences_lengths) ==
    Raise("NotImplementedError")

\* ESIM.forward on a receiver that has the attributes device, _word_embedding
\* and _encoding: the locals when the call of self._encoding raises
ESIM_forward(self, premises, premises_lengths, hypotheses, hypotheses_lengths) ==
    LET premises_mask   == get_mask(premises, premises_lengths)
        hypotheses_mask == get_mask(hypotheses, hypotheses_lengths)
    IN  IF IsError(premises_mask) THEN premises_mask
        ELSE IF IsError(hypotheses_mask) THEN hypotheses_mask
        ELSE LET embedded_premises   == Embedding_forward(self._word_embedding, premises)
                 embedded_hypotheses == Embedding_forward(self._word_embedding, hypotheses)
             IN  IF IsError(embedded_premises) THEN embedded_premises
                 ELSE IF IsError(embedded_hypotheses) THEN embedded_hypotheses
                 ELSE [error  |-> Seq2SeqEncoder_call(self._encoding, embedded_premises,
                                                      premises_lengths).error,
                       locals |-> [premises_mask       |-> To(premises_mask, self.device),
                                   hypotheses_mask     |-> To(hypotheses_mask, self.device),
                                   embedded_premises   |-> embedded_premises,
                                   embedded_hypotheses |-> embedded_hypotheses]]

(***************************************************************************)
(* State.  call is the last call made and ret what it returned (or         *)
(* raised); cnn is the CNN model object, once constructed.  (No ESIM       *)
(* object ever exists: its constructor raises.)                            *)
(***************************************************************************)
None == [none |-> TRUE]

Init ==
    /\ call = [op |-> "none"]
    /\ ret = None
    /\ cnn = None

(***************************************************************************)
(* Inputs of get_mask: batches of token indices (0 is the padding index)   *)
(* with a vector of lengths; lengths of 0 and of more than the padded      *)
(* width are included.                                                     *)
(***************************************************************************)
MaxWidth == 5

BatchSizes == {1, 2}

PadTokens == {0, 1}

\* the caller takes the returned value (or the exception); the next call follows
Return ==
    /\ call.op # "none"
    /\ call' = [op |-> "none"]
    /\ ret' = None
    /\ UNCHANGED cnn

GetMask ==
    /\ call.op = "none"
    /\ \E b \in BatchSizes, w \in 1..MaxWidth :
      \E d \in [1..(b * w) -> PadTokens], l \in [1..b -> 0..(w + 1)] :
        /\ call' = [op |-> "get_mask",
                    sequences_batch |-> Tensor(<<b, w>>, d),
                    sequences_lengths |-> Tensor(<<b>>, l)]
        /\ ret' = get_mask(Tensor(<<b, w>>, d), Tensor(<<b>>, l))
        /\ UNCHANGED cnn

MaskNext == GetMask \/ Return

SpecMask == Init /\ [][MaskNext]_vars

(***************************************************************************)
(* Claims about get_mask                                                   *)
(***************************************************************************)
MaskBatch == call.sequences_batch.shape[1]

MaskWidth == call.sequences_batch.shape[2]

MaskLength(i) == call.sequences_lengths.data[i]

MaskMaxLength == MaxOf(call.sequences_lengths.data)

\* the token of example i (from 1) at position p (from 0)
MaskToken(i, p) == call.sequences_batch.data[(i - 1) * MaskWidth + p + 1]

\* the returned mask's entry for example i (from 1) at position p (from 0)
MaskEntry(i, p) == ret.data[(i - 1) * ret.shape[2] + p + 1]

\* every length is a true length: 0 < length[i] <= padded width
TrueLengths == \A i \in 1..MaskBatch : 0 < MaskLength(i) /\ MaskLength(i) <= MaskWidth

\* true lengths, real tokens before the length and padding from it on
WellFormedBatch ==
    /\ TrueLengths
    /\ \A i \in 1..MaskBatch, p \in 0..(MaskWidth - 1) :
         (MaskToken(i, p) # 0) <=> (p < MaskLength(i))

C2_WellFormedMask ==
    (call.op = "get_mask" /\ WellFormedBatch) =>
        /\ IsTensor(ret)
        /\ ret.shape = <<MaskBatch, MaskMaxLength>>
        /\ Len(ret.data) = MaskBatch * MaskMaxLength
        /\ \A i \in 1..MaskBatch, p \in 0..(MaskMaxLength - 1) :
             /\ REq(MaskEntry(i, p), Float(0)) \/ REq(MaskEntry(i, p), Float(1))
             /\ REq(MaskEntry(i, p), Float(1)) <=> (p < MaskLength(i))

\* the scenario: lengths [3, 5] give rows [1,1,1,0,0] and [1,1,1,1,1]
C2_Scenario35 ==
    /\ call.op = "get_mask"
    /\ WellFormedBatch
    /\ call.sequences_lengths.data = <<3, 5>>
    /\ IsTensor(ret)
    /\ ret.shape = <<2, 5>>
    /\ ret.data = <<Float(1), Float(1), Float(1), Float(0), Float(0),
                    Float(1), Float(1), Float(1), Float(1), Float(1)>>

(***************************************************************************)
(* Inputs of masked_softmax: logits in units of ln 2 (so -BigLogit stands  *)
(* for -BigLogit * ln 2) and 0/1 masks with one axis less than the tensor; *)
(* two-example batches check the mask's broadcast over the middle axis.    *)
(***************************************************************************)
BigLogit == 40

MaxSeq == 2

Logits == {-BigLogit, 0, 1}

SmallLogits == {0, 1}

FloatTensor(shape, ints) == Tensor(shape, [i \in 1..Len(ints) |-> Float(ints[i])])

SoftmaxShapes ==
    {<<1, m, n>> : m \in 1..2, n \in 1..MaxSeq} \cup {<<2, 2, 2>>}

MaskedSoftmax ==
    /\ call.op = "none"
    /\ \E sh \in SoftmaxShapes :
         \E d \in [1..Numel(sh) -> IF sh[1] = 1 THEN Logits ELSE SmallLogits],
            m \in [1..(sh[1] * sh[3]) -> {0, 1}] :
           /\ call' = [op |-> "masked_softmax",
                       tensor |-> FloatTensor(sh, d),
                       mask |-> FloatTensor(<<sh[1], sh[3]>>, m)]
           /\ ret' = masked_softmax(FloatTensor(sh, d), FloatTensor(<<sh[1], sh[3]>>, m))
           /\ UNCHANGED cnn

(***************************************************************************)
(* Inputs of SoftmaxAttention.forward: shapes <<batch, premise length,     *)
(* hypothesis length, vector size>>; the hypothesis vectors are in units   *)
(* of ln 2, so that the similarities are.  The two-example batches take    *)
(* unit vectors and masks of leading ones, as get_mask gives for padded    *)
(* sequences.                                                              *)
(***************************************************************************)
AttnValues == {-1, 0, 2}

AttnShapes ==
    {<<1, lp, lh, 1>> : lp \in 1..2, lh \in 1..2} \cup {<<1, 1, 1, 2>>, <<2, 2, 2, 1>>}

AttnValuesOf(sh) == IF sh[1] = 1 THEN AttnValues ELSE {1}

AttnMasks(b, len) ==
    IF b = 1 THEN [1..len -> {0, 1}]
    ELSE {m \in [1..(b * len) -> {0, 1}] :
             \A i \in 1..(b * len) :
                 /\ ((i - 1) % len = 0) => m[i] = 1
                 /\ ((i - 1) % len # 0 /\ m[i] = 1) => m[i - 1] = 1}

Attention ==
    /\ call.op = "none"
    /\ \E sh \in AttnShapes :
         \E p \in [1..(sh[1] * sh[2] * sh[4]) -> AttnValuesOf(sh)],
            h \in [1..(sh[1] * sh[3] * sh[4]) -> AttnValuesOf(sh)],
            pm \in AttnMasks(sh[1], sh[2]),
            hm \in AttnMasks(sh[1], sh[3]) :
           /\ call' = [op |-> "SoftmaxAttention.forward",
                       premise_batch |-> FloatTensor(<<sh[1], sh[2], sh[4]>>, p),
                       premise_mask |-> FloatTensor(<<sh[1], sh[2]>>, pm),
                       hypothesis_batch |-> FloatTensor(<<sh[1], sh[3], sh[4]>>, h),
                       hypothesis_mask |-> FloatTensor(<<sh[1], sh[3]>>, hm)]
           /\ ret' = SoftmaxAttention_forward(
                         FloatTensor(<<sh[1], sh[2], sh[4]>>, p),
                         FloatTensor(<<sh[1], sh[2]>>, pm),
                         FloatTensor(<<sh[1], sh[3], sh[4]>>, h),
                         FloatTensor(<<sh[1], sh[3]>>, hm))
           /\ UNCHANGED cnn

SoftmaxNext == MaskedSoftmax \/ Attention \/ Return

SpecSoftmax == Init /\ [][SoftmaxNext]_vars

(***************************************************************************)
(* Claims about masked_softmax                                             *)
(***************************************************************************)
RAbs(x) == Fin(FALSE, x.num, x.den)

\* |x - y| <= tol, all finite
Within(x, y, tol) ==
    /\ x.k = "fin"
    /\ y.k = "fin"
    /\ ~RLess(tol, RAbs(RSub(x, y)))

\* the same shape and, entry by entry, the same finite value
TensorEq(a, b) ==
    \/ (a = b /\ IsTensor(a) /\ \A i \in 1..Len(a.data) : a.data[i].k = "fin")
    \/ /\ IsTensor(a)
       /\ IsTensor(b)
       /\ a.shape = b.shape
       /\ \A i \in 1..Len(a.data) : REq(a.data[i], b.data[i])

SmN == Last(call.tensor.shape)

SmRows == Len(call.tensor.data) \div SmN

\* the mask value that applies to the tensor's flat position i (from 1):
\* the mask's entry for the same example and the same last-axis position
SmMaskAt(i) ==
    LET idx == Unravel(i - 1, call.tensor.shape)
    IN  call.mask.data[idx[1] * SmN + idx[Len(idx)] + 1]

SmMasked(i) == IsZero(SmMaskAt(i))

\* the flat positions of row r (from 1) of the tensor viewed as (-1, n)
SmRow(r) == ((r - 1) * SmN + 1)..(r * SmN)

\* C3: the output is exactly 0 wherever the mask is 0; a fully masked row is
\* an all-zero row, and no entry is nan or inf (nothing is divided by zero).
C3_MaskedPositionsZero ==
    (call.op = "masked_softmax") =>
        /\ IsTensor(ret)
        /\ ret.shape = call.tensor.shape
        /\ \A i \in 1..Len(call.tensor.data) :
             /\ ret.data[i].k = "fin"
             /\ SmMasked(i) => REq(ret.data[i], Float(0))
        /\ \A r \in 1..SmRows :
             (\A i \in SmRow(r) : SmMasked(i))
                 => \A i \in SmRow(r) : REq(ret.data[i], Float(0))

\* a fully masked row (beside a row that is not) came out all zero
C3_FullyMaskedRowZero ==
    /\ call.op = "masked_softmax"
    /\ IsTensor(ret)
    /\ \E r \in 1..SmRows :
         /\ \A i \in SmRow(r) : SmMasked(i) /\ REq(ret.data[i], Float(0))
         /\ \E i \in SmRow(r) : ~IsZero(call.tensor.data[i])
    /\ \E i \in 1..Len(call.tensor.data) : ~SmMasked(i)

\* a tolerance far looser than float rounding: 1e-3
Tolerance == Fin(FALSE, <<1>>, BPow(10, 3))

\* the ordinary softmax of the unmasked logits of row r, at position i
SmUnmaskedSoftmax(r, i) ==
    LET unmasked == {j \in SmRow(r) : ~SmMasked(j)}
        e        == [j \in SmRow(r) |->
                        IF j \in unmasked THEN Exp(call.tensor.data[j]) ELSE Float(0)]
    IN  RDiv(e[i], SumSeq([k \in 1..SmN |-> e[(r - 1) * SmN + k]]))

\* C4: in every row with an unmasked position the outputs over the unmasked
\* positions sum to 1 and each equals the softmax over the unmasked logits of
\* the row alone, within the tolerance.
C4_UnmaskedRowIsSoftmax ==
    (call.op = "masked_softmax" /\ IsTensor(ret)) =>
        \A r \in 1..SmRows :
            (\E i \in SmRow(r) : ~SmMasked(i)) =>
                /\ Within(SumSeq([k \in 1..SmN |->
                              LET i == (r - 1) * SmN + k
                              IN  IF SmMasked(i) THEN Float(0) ELSE ret.data[i]]),
                          Float(1), Tolerance)
                /\ \A i \in SmRow(r) :
                     ~SmMasked(i) =>
                         Within(ret.data[i], SmUnmaskedSoftmax(r, i), Tolerance)

\* the logits the tensor of the call was drawn from
SmLogits == IF call.tensor.shape[1] = 1 THEN Logits ELSE SmallLogits

\* the tensors that agree with the call's tensor wherever the mask is 1
SmAgreeing ==
    LET masked == {i \in 1..Len(call.tensor.data) : SmMasked(i)}
    IN  {Tensor(call.tensor.shape,
                [i \in 1..Len(call.tensor.data) |->
                    IF i \in masked THEN Float(f[i]) ELSE call.tensor.data[i]]) :
            f \in [masked -> SmLogits]}

\* the call's tensor with every masked logit replaced by 0
SmZeroFilled ==
    Tensor(call.tensor.shape,
           [i \in 1..Len(call.tensor.data) |->
               IF SmMasked(i) THEN Float(0) ELSE call.tensor.data[i]])

\* the batches of vectors that agree with batch t at the positions mask keeps
AttnAgreeing(t, mask, values) ==
    LET masked == {i \in 1..Len(t.data) :
                      LET idx == Unravel(i - 1, t.shape)
                      IN  IsZero(mask.data[idx[1] * t.shape[2] + idx[2] + 1])}
    IN  {Tensor(t.shape,
                [i \in 1..Len(t.data) |->
                    IF i \in masked THEN Float(f[i]) ELSE t.data[i]]) :
            f \in [masked -> values]}

AttnValuesInCall == IF call.premise_batch.shape[1] = 1 THEN AttnValues ELSE {1, 2}

\* two outcomes of forward are the same exception, or two results whose
\* tensor of this name is the same
AttnSame(x, y, name) ==
    IF IsError(x) \/ IsError(y) THEN x = y ELSE TensorEq(x[name], y[name])

\* C10: the output of masked_softmax is the same, at every position, for every
\* tensor that agrees with the given one where the mask is 1: it is the output
\* for the tensor with 0 at the masked positions, which all such tensors share
\* (and, for single rows, the output for each of them, one by one).  In
\* SoftmaxAttention.forward the attended premises are the same for every
\* hypothesis batch that agrees at the unpadded hypothesis positions, and the
\* attended hypotheses for every premise batch that agrees at the unpadded
\* premise positions.
C10_MaskedLogitsIgnored ==
    /\ (call.op = "masked_softmax") =>
           /\ TensorEq(masked_softmax(SmZeroFilled, call.mask), ret)
           /\ (SmRows = 1) =>
                  \A t \in SmAgreeing : TensorEq(masked_softmax(t, call.mask), ret)
    /\ (call.op = "SoftmaxAttention.forward") =>
           /\ \A h \in AttnAgreeing(call.hypothesis_batch, call.hypothesis_mask,
                                    AttnValuesInCall) :
                  AttnSame(SoftmaxAttention_forward(call.premise_batch, call.premise_mask,
                                                    h, call.hypothesis_mask),
                           ret, "attended_premises")
           /\ \A p \in AttnAgreeing(call.premise_batch, call.premise_mask,
                                    AttnValuesInCall) :
                  AttnSame(SoftmaxAttention_forward(p, call.premise_mask,
                                                    call.hypothesis_batch,
                                                    call.hypothesis_mask),
                           ret, "attended_hypotheses")

\* a row with an unmasked position and a masked one whose logit is not 0: the
\* tensor with 0 there differs from the given one and gives the same output
C10_DiffersOnlyWhereMasked ==
    /\ call.op = "masked_softmax"
    /\ \E r \in 1..SmRows :
         /\ \E i \in SmRow(r) : SmMasked(i) /\ ~IsZero(call.tensor.data[i])
         /\ \E i \in SmRow(r) : ~SmMasked(i) /\ ~IsZero(ret.data[i])
    /\ SmZeroFilled # call.tensor
    /\ TensorEq(masked_softmax(SmZeroFilled, call.mask), ret)

(***************************************************************************)
(* Inputs of weighted_sum: shapes <<batch, m, n, d>> for weights           *)
(* (batch, m, n), a tensor (batch, n, d) and a mask (batch, m).            *)
(***************************************************************************)
WsShapes ==
    {<<1, m, n, d>> : m \in 1..2, n \in 1..2, d \in 1..2} \cup {<<2, 2, 1, 1>>}

WsWeights == {0, 1, 2}

WsValues == {-1, 1}

WeightedSum ==
    /\ call.op = "none"
    /\ \E sh \in WsShapes :
         \E w \in [1..(sh[1] * sh[2] * sh[3]) -> WsWeights],
            t \in [1..(sh[1] * sh[3] * sh[4]) -> WsValues],
            m \in [1..(sh[1] * sh[2]) -> {0, 1}] :
           /\ call' = [op |-> "weighted_sum",
                       tensor |-> FloatTensor(<<sh[1], sh[3], sh[4]>>, t),
                       weights |-> FloatTensor(<<sh[1], sh[2], sh[3]>>, w),
                       mask |-> FloatTensor(<<sh[1], sh[2]>>, m)]
           /\ ret' = weighted_sum(FloatTensor(<<sh[1], sh[3], sh[4]>>, t),
                                  FloatTensor(<<sh[1], sh[2], sh[3]>>, w),
                                  FloatTensor(<<sh[1], sh[2]>>, m))
           /\ UNCHANGED cnn

WeightedNext == WeightedSum \/ Return

SpecWeighted == Init /\ [][WeightedNext]_vars

(***************************************************************************)
(* Claims about weighted_sum                                               *)
(***************************************************************************)
WsBatch == call.weights.shape[1]

WsM == call.weights.shape[2]

WsN == call.weights.shape[3]

WsD == call.tensor.shape[3]

\* the weighted sum for example b, output position i, component k (all from 0)
WsSum(b, i, k) ==
    SumSeq([j \in 1..WsN |->
               RMul(call.weights.data[(b * WsM + i) * WsN + j],
                    call.tensor.data[(b * WsN + (j - 1)) * WsD + k + 1])])

\* C5: the result has shape (batch, m, d); the vector at an output position
\* whose mask is 0 is the zero vector, and at one whose mask is 1 it is the
\* weighted sum, unmodified.
C5_MaskedWeightedSum ==
    (call.op = "weighted_sum") =>
        /\ IsTensor(ret)
        /\ ret.shape = <<WsBatch, WsM, WsD>>
        /\ Len(ret.data) = WsBatch * WsM * WsD
        /\ \A b \in 0..(WsBatch - 1), i \in 0..(WsM - 1), k \in 0..(WsD - 1) :
             REq(ret.data[(b * WsM + i) * WsD + k + 1],
                 IF IsZero(call.mask.data[b * WsM + i + 1])
                 THEN Float(0) ELSE WsSum(b, i, k))

\* two output positions of vectors of another size than the number of
\* positions: one masked, whose weighted sum is not 0, came out 0, and one
\* unmasked came out as its weighted sum, not 0
C5_MaskedAndUnmaskedPosition ==
    /\ call.op = "weighted_sum"
    /\ IsTensor(ret)
    /\ WsM # WsD
    /\ \E b \in 0..(WsBatch - 1), i \in 0..(WsM - 1), k \in 0..(WsD - 1) :
         /\ IsZero(call.mask.data[b * WsM + i + 1])
         /\ ~IsZero(WsSum(b, i, k))
         /\ IsZero(ret.data[(b * WsM + i) * WsD + k + 1])
    /\ \E b \in 0..(WsBatch - 1), i \in 0..(WsM - 1), k \in 0..(WsD - 1) :
         /\ ~IsZero(call.mask.data[b * WsM + i + 1])
         /\ ~IsZero(WsSum(b, i, k))
         /\ REq(ret.data[(b * WsM + i) * WsD + k + 1], WsSum(b, i, k))

(***************************************************************************)
(* The model classes                                                       *)
(***************************************************************************)
VocabSize == 2

EmbeddingDims == {1, 2}

HiddenSizes == {1, 2, 3}

WindowDims == {1, 2}

FilterDims == {1, 2}

\* token ids, one of them past the end of the table
Tokens == 0..VocabSize

\* supplied pre-trained matrices
PretrainedMatrices ==
    UNION {{FloatTensor(<<VocabSize, d>>, v) : v \in [1..(VocabSize * d) -> {0, 1}]} :
           d \in EmbeddingDims}

\* initial weights drawn by nn.Embedding
InitialWeights(shape) ==
    {FloatTensor(shape, [i \in 1..Numel(shape) |-> c]) : c \in {-1, 1}}

CNNInit ==
    /\ call.op = "none"
    /\ \E embeddings \in PretrainedMatrices, window_dim \in WindowDims,
          filter_dim \in FilterDims :
         \E init \in InitialWeights(embeddings.shape) :
           /\ call' = [op |-> "CNN.__init__", embeddings |-> embeddings,
                       window_dim |-> window_dim, filter_dim |-> filter_dim]
           /\ cnn' = CNN_init(embeddings, embeddings.shape[2], window_dim, filter_dim,
                              2, MaxSeq, 0, init)
           /\ ret' = None

CNNForward ==
    /\ call.op = "none"
    /\ cnn # None
    /\ \E b \in {1}, len \in 1..MaxSeq :
         \E d \in [1..(b * len) -> Tokens], l \in [1..b -> 1..len] :
           /\ call' = [op |-> "CNN.forward",
                       sen_batch |-> Tensor(<<b, len>>, d),
                       sen_lengths |-> Tensor(<<b>>, l)]
           /\ ret' = CNN_forward(cnn, Tensor(<<b, len>>, d), Tensor(<<b>>, l))
           /\ UNCHANGED cnn

ESIMInit ==
    /\ call.op = "none"
    /\ \E embeddings \in PretrainedMatrices, hidden_size \in HiddenSizes :
         /\ call' = [op |-> "ESIM.__init__", embeddings |-> embeddings,
                     hidden_size |-> hidden_size]
         /\ ret' = ESIM_init(embeddings.shape[1], embeddings.shape[2], hidden_size,
                             embeddings, 0, 3, "cpu")
         /\ UNCHANGED cnn

\* the three Seq2SeqEncoder(...) calls written in ESIM.__init__, by line
Seq2SeqEncoderInit ==
    /\ call.op = "none"
    /\ \E embedding_dim \in EmbeddingDims, hidden_size \in HiddenSizes,
          line \in {229, 235, 243} :
         LET args == CASE line = 229 -> ESIM_encoding_args(embedding_dim, hidden_size)
                       [] line = 235 -> ESIM_composition_args_first(hidden_size)
                       [] line = 243 -> ESIM_composition_args(hidden_size)
         IN  /\ call' = [op |-> "Seq2SeqEncoder.__init__", line |-> line,
                         embedding_dim |-> embedding_dim, hidden_size |-> hidden_size,
                         projection |-> ESIM_projection(hidden_size)]
             /\ ret' = Seq2SeqEncoder_init(args, TRUE)
             /\ UNCHANGED cnn

\* ESIM.forward on a receiver put together by hand from what lines 221-231
\* assign (the constructor itself never returns one)
ESIMForward ==
    /\ call.op = "none"
    /\ \E wp \in 1..MaxSeq, wh \in 1..MaxSeq, 
          embeddings \in {FloatTensor(<<VocabSize, 1>>, [i \in 1..VocabSize |-> i - 1])} :
         \E dp \in [1..wp -> PadTokens], dh \in [1..wh -> PadTokens],
            lp \in 1..wp, lh \in 1..wh :
           LET self == [device          |-> "cpu",
                        _word_embedding |-> PretrainedEmbedding(embeddings, embeddings),
                        _encoding       |-> Seq2SeqEncoder_init(
                                                ESIM_encoding_args(1, 1), TRUE).self]
           IN  /\ call' = [op |-> "ESIM.forward",
                           premises           |-> Tensor(<<1, wp>>, dp),
                           premises_lengths   |-> Tensor(<<1>>, <<lp>>),
                           hypotheses         |-> Tensor(<<1, wh>>, dh),
                           hypotheses_lengths |-> Tensor(<<1>>, <<lh>>)]
               /\ ret' = ESIM_forward(self, Tensor(<<1, wp>>, dp), Tensor(<<1>>, <<lp>>),
                                      Tensor(<<1, wh>>, dh), Tensor(<<1>>, <<lh>>))
               /\ UNCHANGED cnn

ModelsNext ==
    CNNInit \/ CNNForward \/ ESIMInit \/ Seq2SeqEncoderInit \/ ESIMForward \/ Return

SpecModels == Init /\ [][ModelsNext]_vars

(***************************************************************************)
(* Claims about the model classes                                          *)
(***************************************************************************)
\* C6: whenever ESIM.forward runs on a batch whose largest true length is
\* smaller than the padded width, the embedded sequences are as wide as the
\* masks made for them (the batch max length), and the call raises nothing.
C6_TruncatedToBatchMaxLength ==
    (/\ call.op = "ESIM.forward"
     /\ MaxOf(call.premises_lengths.data) < call.premises.shape[2]) =>
        /\ "locals" \in DOMAIN ret
        /\ ret.locals.embedded_premises.shape[2] = ret.locals.premises_mask.shape[2]
        /\ ret.locals.embedded_hypotheses.shape[2] = ret.locals.hypotheses_mask.shape[2]
        /\ ~IsError(ret)

\* C7: a constructed CNN holds an embedding table whose row 0 is the zero
\* vector and which is not trainable, in every later state too; and
\* constructing an ESIM yields a model (of which the same would hold).
C7_PaddingRowZeroAndFrozen ==
    /\ (cnn # None) =>
          /\ \A k \in 1..cnn.emb.embedding_dim : IsZero(cnn.emb.weight.data[k])
          /\ ~cnn.emb.requires_grad
    /\ (call.op = "ESIM.__init__") => ~IsError(ret)

\* C8: the projection takes 4 x 2H inputs and gives H; the encoder of
\* line 229 has input size E and hidden size H; the composition encoder that
\* ESIM.__init__ assigns last (line 243) is constructed with input size H,
\* hidden size H and one layer; all are bidirectional and constructed
\* without an exception, as is the ESIM itself.
C8_DimensionsChain ==
    /\ (call.op = "Seq2SeqEncoder.__init__") =>
          /\ call.projection.in_features = 4 * 2 * call.hidden_size
          /\ call.projection.out_features = call.hidden_size
          /\ ret.self.bidirectional
          /\ (call.line = 229) =>
                /\ ret.self.input_size = PyInt(call.embedding_dim)
                /\ ret.self.hidden_size = PyInt(call.hidden_size)
          /\ (call.line = 243) =>
                /\ ret.self.input_size = PyInt(call.hidden_size)
                /\ ret.self.hidden_size = PyInt(call.hidden_size)
                /\ ret.self.num_layers = PyInt(1)
          /\ ~IsError(ret)
    /\ (call.op = "ESIM.__init__") => ~IsError(ret)

\* C9: for a batch (batch, L) of known tokens with L >= window_dim,
\* CNN.forward produces a tensor of shape
\* (batch, filter_dim, L - window_dim + 1, 1).
C9_ForwardConvolves ==
    (/\ call.op = "CNN.forward"
     /\ call.sen_batch.shape[2] >= cnn.window_dim
     /\ \A i \in 1..Len(call.sen_batch.data) : call.sen_batch.data[i] < VocabSize) =>
        /\ IsTensor(ret)
        /\ ret.shape = <<call.sen_batch.shape[1], cnn.filter_dim,
                         call.sen_batch.shape[2] - cnn.window_dim + 1, 1>>

====
